---- MODULE Spec2Model ----
(***************************************************************************)
(* A model of manager/__init__.py: commands derived from a callable's      *)
(* signature (InspectedFunction, Arg, Command), their argument overrides,  *)
(* the parse/execute path of a command, and the Manager registry.          *)
(***************************************************************************)
EXTENDS Naturals, Integers, Sequences, FiniteSets, TLC

VARIABLES
    fn,          \* the callable given as Command.run: what getargspec sees of it
    pc,          \* "new" before Command.__init__ has run, "ready" after
    args,        \* Command.args: the list of Arg descriptors
    arg_names,   \* Command.arg_names: the parameter names, receiver excluded
    nadd,        \* number of add_argument calls made so far
    last,        \* the last add_argument call: its Arg, whether it raised, args before it
    directives,  \* what the last evaluation of Command.parser handed to argparse
    run,         \* the last Command.parse / Command.execute call and its outcome
    commands,    \* the Command objects known to the registries (name, namespace, ...)
    registry,    \* Manager.commands of each Manager: path -> command
    merged,      \* the last Manager.merge call and the registries before it
    calls        \* number of add_command and of merge calls made so far

vars == <<fn, pc, args, arg_names, nadd, last, directives, run,
          commands, registry, merged, calls>>

cmdVars == <<fn, pc, args, arg_names, nadd, last, directives, run>>
mgrVars == <<commands, registry, merged, calls>>

(***************************************************************************)
(* Bounds of the model.                                                    *)
(***************************************************************************)
MaxParams == 2      \* parameters of the inspected callable, receiver excluded
MaxAdds == 2        \* add_argument calls on one command
MaxRunAdds == 1     \* add_argument calls before a parse or an execute
MaxTokens == 3      \* raw arguments handed to parse / execute
MaxCommands == 2    \* Command objects created for the registries
MaxRegistered == 3  \* Manager.add_command calls
MaxMerges == 1      \* Manager.merge calls

ParamNames == <<"a", "b", "c", "d">>
Receiver == "self"
Unknown == "zz"     \* a name that is never a parameter

\* The n parameter names of a callable, in signature order.
Params(n) == SubSeq(ParamNames, 1, n)

Range(s) == {s[i] : i \in DOMAIN s}

\* F applied to the value of x, x being evaluated once.
With(x, F(_)) == CHOOSE r \in {F(v) : v \in {x}} : TRUE

(***************************************************************************)
(* Python values.  A value is its runtime type and its printed form;       *)
(* wrapped says that it is held in a `positional` marker object.           *)
(***************************************************************************)
NoneV == [type |-> "NoneType", val |-> "None", wrapped |-> FALSE]
FalseV == [type |-> "bool", val |-> "False", wrapped |-> FALSE]
TrueV == [type |-> "bool", val |-> "True", wrapped |-> FALSE]
StrV(s) == [type |-> "str", val |-> s, wrapped |-> FALSE]

\* positional(value): the marker object around a value.
positional(v) == [v EXCEPT !.wrapped = TRUE]

\* type(v) as Python computes it: a marker object is of class positional.
TypeOf(v) == IF v.wrapped THEN "positional" ELSE v.type

\* v is False
IsFalse(v) == v = FalseV

\* The defaults a signature of the model may give to a parameter.
DefaultValues == {FalseV, StrV("v"), positional(StrV("v"))}

(***************************************************************************)
(* InspectedFunction                                                       *)
(***************************************************************************)
\* A callable as getargspec sees it: all argument names (a bound method's
\* receiver included) and the tuple of defaults (<<>> stands for None).
Callable(is_method, names, defaults) ==
    [is_method |-> is_method,
     arguments |-> IF is_method THEN <<Receiver>> \o names ELSE names,
     defaults |-> defaults]

Callables ==
    {Callable(m, Params(n), d) :
        m \in BOOLEAN, n \in 0..MaxParams,
        d \in UNION {[1..k -> DefaultValues] : k \in 0..MaxParams}}

\* A signature cannot hold more defaults than parameters.
WellFormed(f) ==
    Len(f.defaults) <= Len(f.arguments) - (IF f.is_method THEN 1 ELSE 0)

\* InspectedFunction.argument_names
argument_names(f) ==
    LET start == IF f.is_method THEN 1 ELSE 0
    IN  SubSeq(f.arguments, start + 1, Len(f.arguments))

Reversed(s) == [i \in 1..Len(s) |-> s[Len(s) + 1 - i]]

\* dict(zip(keys, values)): zip stops at the shorter sequence, a later pair
\* with the same key wins.
DictZip(keys, values) ==
    LET n == IF Len(keys) < Len(values) THEN Len(keys) ELSE Len(values)
    IN  [k \in {keys[i] : i \in 1..n} |->
            values[CHOOSE i \in 1..n :
                     /\ keys[i] = k
                     /\ \A j \in 1..n : keys[j] = k => j <= i]]

\* Variant: the zip of arguments and defaults taken from the front.
inspected_kwargs_unreversed(f) == DictZip(f.arguments, f.defaults)

\* InspectedFunction.kwargs
inspected_kwargs(f) ==
    IF Len(f.defaults) = 0 THEN <<>>
    ELSE DictZip(Reversed(f.arguments), Reversed(f.defaults))

(***************************************************************************)
(* Arg                                                                     *)
(***************************************************************************)
\* The keyword arguments of an Arg(...) call: keys says which are given.
Kw(keys, help, required, type, default, dest) ==
    [keys |-> keys, help |-> help, required |-> required, type |-> type,
     default |-> default, dest |-> dest]

NoKw == Kw({}, "", FALSE, "None", NoneV, "")

\* Arg.defaults
Arg_defaults == Kw({"help", "required", "type"}, "no description", FALSE, "None", NoneV, "")

\* Arg.__init__: the class defaults updated with the keyword arguments; every
\* key becomes an attribute of the object.
Arg(name, kw) ==
    LET pick(k, field) == IF k \in kw.keys THEN kw[field] ELSE Arg_defaults[field]
    IN  [name |-> name,
         keys |-> Arg_defaults.keys \cup kw.keys,
         help |-> pick("help", "help"),
         required |-> pick("required", "required"),
         type |-> pick("type", "type"),
         default |-> pick("default", "default"),
         dest |-> pick("dest", "dest")]

\* Arg.positional
Arg_positional(arg) ==
    arg.required \/ ("default" \in arg.keys /\ arg.default.wrapped)

\* Arg.parser_name
Arg_parser_name(arg) ==
    IF Arg_positional(arg) THEN arg.name ELSE "--" \o arg.name

\* Arg.unwrap_default
unwrap_default(default) ==
    IF default.wrapped THEN [default EXCEPT !.wrapped = FALSE] ELSE default

\* Arg.kwargs reads self.default, an attribute that exists only when a
\* default was given: AttributeError otherwise.
Arg_kwargs_raises(arg) == arg.type = "bool" /\ "default" \notin arg.keys

\* Variant: kwargs that leaves the type entry in for a bool False default.
Arg_kwargs_keeps_type(arg) ==
    LET positional_ == Arg_positional(arg)
        switch == arg.type = "bool" /\ "default" \in arg.keys /\ IsFalse(arg.default)
        k1 == IF positional_ THEN arg.keys \ {"required"} ELSE arg.keys
        k2 == IF ~arg.required /\ positional_ THEN k1 \cup {"nargs"} ELSE k1
        k3 == IF switch THEN k2 \cup {"action"} ELSE k2
    IN  [keys |-> k3, help |-> arg.help, required |-> arg.required,
         type |-> arg.type, default |-> unwrap_default(arg.default),
         dest |-> arg.dest,
         nargs |-> IF "nargs" \in k3 THEN "?" ELSE "",
         action |-> IF switch THEN "store_true" ELSE ""]

\* Arg.kwargs: the keyword arguments of parser.add_argument
Arg_kwargs(arg) ==
    LET positional_ == Arg_positional(arg)
        switch == arg.type = "bool" /\ "default" \in arg.keys /\ IsFalse(arg.default)
        k1 == IF positional_ THEN arg.keys \ {"required"} ELSE arg.keys
        k2 == IF ~arg.required /\ positional_ THEN k1 \cup {"nargs"} ELSE k1
        k3 == IF switch THEN (k2 \cup {"action"}) \ {"type"} ELSE k2
    IN  [keys |-> k3, help |-> arg.help, required |-> arg.required,
         type |-> arg.type, default |-> unwrap_default(arg.default),
         dest |-> arg.dest,
         nargs |-> IF "nargs" \in k3 THEN "?" ELSE "",
         action |-> IF switch THEN "store_true" ELSE ""]

(***************************************************************************)
(* Command: construction and argument overrides                            *)
(***************************************************************************)
\* Command._create_arguments
create_arguments(names, kwargs) ==
    [i \in 1..Len(names) |->
        LET name == names[i]
            given == name \in DOMAIN kwargs
            default == IF given THEN kwargs[name] ELSE NoneV
        IN  Arg(name, Kw({"default", "type", "required"}, "", ~given,
                         IF given THEN TypeOf(default) ELSE "None",
                         default, ""))]

\* Command.has_argument
has_argument(selfargs, name) == name \in {selfargs[i].name : i \in DOMAIN selfargs}

\* list.index of a member of the list (0, no position, for anything else)
Index(s, x) ==
    IF x \in Range(s)
    THEN CHOOSE i \in 1..Len(s) : s[i] = x /\ \A j \in 1..(i - 1) : s[j] # x
    ELSE 0

\* The name register_argument looks up: arg.dest if the Arg has one.
Dest(arg) == IF "dest" \in arg.keys THEN arg.dest ELSE arg.name

\* Variant: a register_argument that accepts every name.
register_raises_never(selfargs, arg, names) == FALSE

\* Command.register_argument raises: the looked-up name is no parameter, or
\* the position to replace is past the end of the list.
register_raises(selfargs, arg, names) ==
    \/ Dest(arg) \notin Range(names)
    \/ /\ has_argument(selfargs, arg.name)
       /\ Index(names, Dest(arg)) > Len(selfargs)

\* Command.register_argument, when it does not raise: the new self.args
register_argument(selfargs, arg, names) ==
    IF has_argument(selfargs, arg.name)
    THEN [selfargs EXCEPT ![Index(names, Dest(arg))] = arg]
    ELSE Append(selfargs, arg)

\* The loop of Command.collect_arguments over the first n created arguments.
RECURSIVE collect(_, _, _)
collect(created, names, n) ==
    IF n = 0 THEN [raised |-> FALSE, args |-> <<>>]
    ELSE With(collect(created, names, n - 1), LAMBDA before :
             IF before.raised \/ register_raises(before.args, created[n], names)
             THEN [raised |-> TRUE, args |-> before.args]
             ELSE [raised |-> FALSE,
                   args |-> register_argument(before.args, created[n], names)])

\* Command.collect_arguments
collect_arguments(f) ==
    LET names == argument_names(f)
        created == create_arguments(names, inspected_kwargs(f))
    IN  collect(created, names, Len(created))

(***************************************************************************)
(* Command.parser: one parser.add_argument(arg.parser_name, **arg.kwargs)  *)
(* per descriptor.  The property raises when Arg.kwargs raises or when     *)
(* argparse refuses the argument: a positional given a dest, or an option  *)
(* string that is already taken.                                           *)
(***************************************************************************)
Directive(arg) ==
    [name |-> Arg_parser_name(arg), flag |-> ~Arg_positional(arg),
     kw |-> Arg_kwargs(arg), arg |-> arg]

add_argument_error(list, arg) ==
    IF Arg_kwargs_raises(arg) THEN "AttributeError"
    ELSE IF Arg_positional(arg) /\ "dest" \in Arg_kwargs(arg).keys THEN "ValueError"
    ELSE IF /\ ~Arg_positional(arg)
            /\ \E i \in DOMAIN list : list[i].flag /\ list[i].name = Arg_parser_name(arg)
    THEN "ArgumentError"
    ELSE ""

RECURSIVE build_parser(_, _)
build_parser(selfargs, n) ==
    IF n = 0 THEN [exc |-> "", list |-> <<>>]
    ELSE With(build_parser(selfargs, n - 1), LAMBDA before :
             IF before.exc # "" THEN before
             ELSE With(add_argument_error(before.list, selfargs[n]), LAMBDA err :
                     IF err # "" THEN [exc |-> err, list |-> before.list]
                     ELSE [exc |-> "",
                           list |-> Append(before.list, Directive(selfargs[n]))]))

\* Command.parser
Command_parser(selfargs) == build_parser(selfargs, Len(selfargs))

(***************************************************************************)
(* argparse, as Command.parse uses it: parser.parse_args(input_args) over  *)
(* the arguments Command.parser added.  A raw argument is a plain value or *)
(* an option string "--name".                                              *)
(***************************************************************************)
ValueTokens == {"Ada"}
IsFlag(tok) == tok \notin ValueTokens

\* The attribute of the namespace an added argument writes.
ActDest(d) == IF "dest" \in d.kw.keys THEN d.kw.dest ELSE d.arg.name
ActDefault(d) == IF "default" \in d.kw.keys THEN d.kw.default ELSE NoneV
ActType(d) == IF "type" \in d.kw.keys THEN d.kw.type ELSE "None"
ActSwitch(d) == "action" \in d.kw.keys
ActOptional(d) == "nargs" \in d.kw.keys
ActRequired(d) ==
    IF d.flag THEN "required" \in d.kw.keys /\ d.kw.required ELSE ~ActOptional(d)

\* Raw arguments a positional must, and can, take.
Need(d) == IF ActSwitch(d) \/ ActOptional(d) THEN 0 ELSE 1
Cap(d) == IF ActSwitch(d) THEN 0 ELSE 1

\* type(string) as argparse applies it: None and str keep the string, bool
\* of a non-empty string is True, positional wraps it; anything else fails.
ConvertOk(type) == type \in {"None", "str", "bool", "positional"}
Convert(type, tok) ==
    IF type = "bool" THEN TrueV
    ELSE IF type = "positional" THEN positional(StrV(tok))
    ELSE StrV(tok)

SetAttr(ns, k, v) == [x \in DOMAIN ns \cup {k} |-> IF x = k THEN v ELSE ns[x]]

\* The namespace starts with each destination's default, the first added
\* argument of a destination deciding it.
RECURSIVE init_namespace(_, _)
init_namespace(list, n) ==
    IF n = 0 THEN <<>>
    ELSE With(init_namespace(list, n - 1), LAMBDA ns :
             IF ActDest(list[n]) \in DOMAIN ns THEN ns
             ELSE SetAttr(ns, ActDest(list[n]), ActDefault(list[n])))

\* The value a positional stores when it matched no raw argument.
EmptyValue(d) ==
    IF ActSwitch(d) THEN TrueV
    ELSE IF ActDefault(d).type = "str" THEN Convert(ActType(d), ActDefault(d).val)
    ELSE ActDefault(d)

RECURSIVE SumNeed(_, _, _, _)
SumNeed(list, p, from, to) ==
    IF from > to THEN 0 ELSE Need(list[p[from]]) + SumNeed(list, p, from + 1, to)

\* consume_positionals: match as many of the remaining positionals st.p as
\* the m plain raw arguments at st.i allow (the first j of them), earlier
\* positionals taking a raw argument whenever the later ones can still be
\* served.
RECURSIVE take_positionals(_, _, _, _, _)
take_positionals(list, toks, state, j, available) ==
    With(<<state, available>>, LAMBDA sa :
        LET st == sa[1]
            avail == sa[2]
            d == list[st.p[1]]
            takes == IF Cap(d) = 0 THEN 0
                     ELSE IF Need(d) = 1 THEN 1
                     ELSE IF avail - SumNeed(list, st.p, 2, j) > 0 THEN 1
                     ELSE 0
            bad == takes = 1 /\ ~ConvertOk(ActType(d))
            value == IF takes = 1 THEN Convert(ActType(d), toks[st.i]) ELSE EmptyValue(d)
        IN  IF j = 0 \/ st.err THEN st
            ELSE take_positionals(list, toks,
                     [i |-> st.i + takes, p |-> Tail(st.p),
                      ns |-> IF bad THEN st.ns ELSE SetAttr(st.ns, ActDest(d), value),
                      seen |-> st.seen \cup {st.p[1]}, err |-> bad],
                     j - 1, avail - takes))

consume_positionals(list, toks, st, m) ==
    LET j == CHOOSE j \in 0..Len(st.p) :
                 /\ SumNeed(list, st.p, 1, j) <= m
                 /\ \A l \in (j + 1)..Len(st.p) : SumNeed(list, st.p, 1, l) > m
    IN  take_positionals(list, toks, st, j, m)

\* Number of plain raw arguments from position i on, up to the next option.
RECURSIVE PlainRun(_, _)
PlainRun(toks, i) ==
    IF i > Len(toks) \/ IsFlag(toks[i]) THEN 0 ELSE 1 + PlainRun(toks, i + 1)

\* The loop of parse_args over the raw arguments: positionals are consumed
\* from each run of plain raw arguments, an option takes its own argument.
RECURSIVE scan(_, _, _)
scan(list, toks, state) ==
    With(state, LAMBDA st :
        IF st.err THEN st
        ELSE IF st.i > Len(toks) THEN consume_positionals(list, toks, st, 0)
        ELSE IF IsFlag(toks[st.i])
        THEN LET cands == {k \in DOMAIN list : list[k].flag /\ list[k].name = toks[st.i]}
                 k == CHOOSE k \in cands : TRUE
                 d == list[k]
             IN  IF cands = {} THEN [st EXCEPT !.err = TRUE]
                 ELSE IF ActSwitch(d)
                 THEN scan(list, toks,
                          [st EXCEPT !.i = @ + 1,
                                     !.ns = SetAttr(@, ActDest(d), TrueV),
                                     !.seen = @ \cup {k}])
                 ELSE IF PlainRun(toks, st.i + 1) > 0 /\ ConvertOk(ActType(d))
                 THEN scan(list, toks,
                          [st EXCEPT !.i = @ + 2,
                                     !.ns = SetAttr(@, ActDest(d),
                                                Convert(ActType(d), toks[st.i + 1])),
                                     !.seen = @ \cup {k}])
                 ELSE [st EXCEPT !.err = TRUE]
        ELSE With(consume_positionals(list, toks, st, PlainRun(toks, st.i)), LAMBDA after :
                 IF after.err \/ after.i < st.i + PlainRun(toks, st.i)
                 THEN [after EXCEPT !.err = TRUE]
                 ELSE scan(list, toks, after)))

\* The defaults of the arguments that were not given, converted at the end.
RECURSIVE convert_defaults(_, _, _, _)
convert_defaults(list, seen, ns, n) ==
    IF n = 0 THEN ns
    ELSE With(convert_defaults(list, seen, ns, n - 1), LAMBDA before :
             IF /\ n \notin seen
                /\ ActDefault(list[n]).type = "str"
                /\ before[ActDest(list[n])] = ActDefault(list[n])
                /\ ConvertOk(ActType(list[n]))
             THEN SetAttr(before, ActDest(list[n]),
                          Convert(ActType(list[n]), ActDefault(list[n]).val))
             ELSE before)

\* parser.parse_args(input_args): the namespace, or SystemExit on an error.
parse_args(list, toks) ==
    LET start == [i |-> 1,
                  p |-> SelectSeq([k \in 1..Len(list) |-> k], LAMBDA k : ~list[k].flag),
                  ns |-> init_namespace(list, Len(list)),
                  seen |-> {}, err |-> FALSE]
    IN  With(scan(list, toks, start), LAMBDA end :
            IF \/ end.err
               \/ \E k \in DOMAIN list : k \notin end.seen /\ ActRequired(list[k])
            THEN [exc |-> "SystemExit", ns |-> <<>>]
            ELSE [exc |-> "", ns |-> convert_defaults(list, end.seen, end.ns, Len(list))])

(***************************************************************************)
(* Command.parse and Command.execute                                       *)
(***************************************************************************)
Min(x, y) == IF x < y THEN x ELSE y

\* The loop of Command.parse over zip(self.args, self.arg_names): pos is the
\* positional list (each value with the name it was read from), kw the
\* keyword mapping.
RECURSIVE parse_loop(_, _, _, _)
parse_loop(selfargs, names, ns, n) ==
    IF n = 0 THEN [exc |-> "", pos |-> <<>>, kw |-> <<>>]
    ELSE With(parse_loop(selfargs, names, ns, n - 1), LAMBDA before :
             IF before.exc # "" THEN before
             ELSE IF selfargs[n].required
             THEN IF names[n] \in DOMAIN ns
                  THEN [before EXCEPT
                           !.pos = Append(@, [name |-> names[n], value |-> ns[names[n]]])]
                  ELSE [before EXCEPT !.exc = "AttributeError"]
             ELSE IF names[n] \in DOMAIN ns
             THEN [before EXCEPT !.kw = SetAttr(@, names[n], ns[names[n]])]
             ELSE before)

\* Command.parse
Command_parse(selfargs, names, toks) ==
    With(Command_parser(selfargs), LAMBDA built :
        IF built.exc # "" THEN [exc |-> built.exc, ns |-> <<>>, pos |-> <<>>, kw |-> <<>>]
        ELSE With(parse_args(built.list, toks), LAMBDA parsed :
                IF parsed.exc # ""
                THEN [exc |-> parsed.exc, ns |-> <<>>, pos |-> <<>>, kw |-> <<>>]
                ELSE With(parse_loop(selfargs, names, parsed.ns,
                                     Min(Len(selfargs), Len(names))), LAMBDA looped :
                        [exc |-> looped.exc, ns |-> parsed.ns,
                         pos |-> looped.pos, kw |-> looped.kw])))

\* The call self.run(*args, **kwargs): Python binds the positional values to
\* the leading parameters and the keywords by name, and raises TypeError
\* for too many values, an unknown keyword, a parameter given twice or a
\* parameter without a default left out.
BindError(f, pos, kw) ==
    LET names == argument_names(f)
    IN  \/ Len(pos) > Len(names)
        \/ \E k \in DOMAIN kw : k \notin Range(names) \/ Index(names, k) <= Len(pos)
        \/ \E i \in (Len(pos) + 1)..Len(names) :
               names[i] \notin DOMAIN kw /\ names[i] \notin DOMAIN inspected_kwargs(f)

\* For each parameter given a value: the name that value was read from.
BoundFrom(f, pos, kw) ==
    LET names == argument_names(f)
    IN  [x \in {names[i] : i \in 1..Len(pos)} \cup DOMAIN kw |->
            IF Index(names, x) <= Len(pos) THEN pos[Index(names, x)].name ELSE x]

ErrorInstance == [type |-> "Error", val |-> "No way dude!", wrapped |-> FALSE]
ReturnValue == StrV("done")

\* Command.puts: the lines written for a result.
Command_puts(r) == IF r = NoneV THEN <<>> ELSE <<r.val>>

\* The interpreters the code is written for: under Python 3 the name bound
\* by `except Error as result` is deleted when the except clause ends.
PythonVersions == {2, 3}

\* The try / except Error as result / finally: return self.puts(result) of
\* Command.execute, given what self.run did (raised = "" when it returned).
\* The local `result` is bound by a normal return, and by the except clause
\* under Python 2 only; the finally clause reads it, which raises
\* UnboundLocalError in place of whatever was propagating.
execute_finally(py, raised) ==
    LET bound == raised = "" \/ (raised = "Error" /\ py = 2)
        result == IF raised = "" THEN ReturnValue ELSE ErrorInstance
    IN  IF bound
        THEN [exc |-> "", handed |-> TRUE, result |-> result, stdout |-> Command_puts(result)]
        ELSE [exc |-> "UnboundLocalError", handed |-> FALSE, result |-> NoneV, stdout |-> <<>>]

(***************************************************************************)
(* State machine of one command                                            *)
(***************************************************************************)
NoArg == Arg("", NoKw)
NoCall == [made |-> FALSE, arg |-> NoArg, raised |-> FALSE, before |-> <<>>]
NoDirectives == [made |-> FALSE, exc |-> "", list |-> <<>>]
NoRun ==
    [op |-> "none", input |-> <<>>, py |-> 0, exc |-> "", ns |-> <<>>, pos |-> <<>>,
     kw |-> <<>>, called |-> FALSE, raised |-> "", handed |-> FALSE, result |-> NoneV,
     stdout |-> <<>>]

\* The keyword arguments the model passes to an overriding Arg(name, ...).
OverrideKws(names) ==
    {Kw({"help"}, "h", FALSE, "None", NoneV, ""),
     Kw({"required"}, "", TRUE, "None", NoneV, ""),
     Kw({"default", "type"}, "", FALSE, "bool", FalseV, ""),
     Kw({"type"}, "", FALSE, "bool", NoneV, ""),
     Kw({"default"}, "", FALSE, "None", positional(StrV("v")), "")}
    \cup {Kw({"dest"}, "", FALSE, "None", NoneV, d) : d \in names}

MgrIdle ==
    /\ commands = <<>>
    /\ registry = <<>>
    /\ merged = <<>>
    /\ calls = <<>>

Init ==
    /\ fn \in {f \in Callables : WellFormed(f)}
    /\ pc = "new"
    /\ args = <<>>
    /\ arg_names = <<>>
    /\ nadd = 0
    /\ last = NoCall
    /\ directives = NoDirectives
    /\ run = NoRun
    /\ MgrIdle

\* Command.__init__: self.args = [], self.arg_names = self.collect_arguments()
Construct ==
    /\ pc = "new"
    /\ LET got == collect_arguments(fn)
       IN  /\ args' = got.args
           /\ pc' = IF got.raised THEN "failed" ELSE "ready"
           /\ arg_names' = IF got.raised THEN <<>> ELSE argument_names(fn)
    /\ UNCHANGED <<fn, nadd, last, directives, run, mgrVars>>

\* Command.add_argument(arg), also reached through Manager.arg(name, **kwargs)
add_argument(arg) ==
    /\ pc = "ready"
    /\ IF register_raises(args, arg, arg_names)
       THEN /\ last' = [made |-> TRUE, arg |-> arg, raised |-> TRUE, before |-> args]
            /\ args' = args
       ELSE /\ last' = [made |-> TRUE, arg |-> arg, raised |-> FALSE, before |-> args]
            /\ args' = register_argument(args, arg, arg_names)
    /\ nadd' = nadd + 1
    /\ directives' = NoDirectives
    /\ run' = NoRun
    /\ UNCHANGED <<fn, pc, arg_names, mgrVars>>

AddArgument ==
    /\ nadd < MaxAdds
    /\ \E name \in Range(arg_names) \cup {Unknown} :
         \E kw \in OverrideKws(Range(arg_names) \cup {Unknown}) :
            add_argument(Arg(name, kw))

\* An evaluation of Command.parser
Parser ==
    /\ pc = "ready"
    /\ ~directives.made
    /\ LET built == Command_parser(args)
       IN  directives' = [made |-> TRUE, exc |-> built.exc, list |-> built.list]
    /\ UNCHANGED <<fn, pc, args, arg_names, nadd, last, run, mgrVars>>

Next == Construct \/ AddArgument \/ Parser

Spec == Init /\ [][Next]_vars

(***************************************************************************)
(* A command that is parsed and executed                                   *)
(***************************************************************************)
SeqsUpTo(S, n) == UNION {[1..k -> S] : k \in 0..n}

\* The raw arguments tried: plain values and the option strings of the
\* command's descriptors.
Inputs == SeqsUpTo(ValueTokens \cup {"--" \o args[i].name : i \in DOMAIN args}, MaxTokens)

AddArgumentRun ==
    /\ nadd < MaxRunAdds
    /\ \E name \in Range(arg_names) \cup {Unknown} :
         \E kw \in OverrideKws(Range(arg_names) \cup {Unknown}) :
            add_argument(Arg(name, kw))

\* Command.parse(input_args)
Parse ==
    /\ pc = "ready"
    /\ run.op = "none"
    /\ \E toks \in Inputs :
         \E p \in {Command_parse(args, arg_names, toks)} :
             run' = [NoRun EXCEPT !.op = "parse", !.input = toks, !.exc = p.exc,
                                  !.ns = p.ns, !.pos = p.pos, !.kw = p.kw]
    /\ UNCHANGED <<fn, pc, args, arg_names, nadd, last, directives, mgrVars>>

\* Command.execute(arguments): what the callable does once called (return,
\* raise Error, raise another fault) is its own choice.
Execute ==
    /\ pc = "ready"
    /\ run.op = "none"
    /\ \E toks \in Inputs, py \in PythonVersions, does \in {"", "Error", "ValueError"} :
         \E p \in {Command_parse(args, arg_names, toks)} :
         LET raised == IF BindError(fn, p.pos, p.kw) THEN "TypeError" ELSE does
             f == execute_finally(py, raised)
         IN  IF p.exc # ""
             THEN run' = [NoRun EXCEPT !.op = "execute", !.input = toks, !.py = py,
                                       !.exc = p.exc]
             ELSE run' = [op |-> "execute", input |-> toks, py |-> py, exc |-> f.exc,
                          ns |-> p.ns, pos |-> p.pos, kw |-> p.kw, called |-> TRUE,
                          raised |-> raised, handed |-> f.handed, result |-> f.result,
                          stdout |-> f.stdout]
    /\ UNCHANGED <<fn, pc, args, arg_names, nadd, last, directives, mgrVars>>

NextRun == Construct \/ AddArgumentRun \/ Parse \/ Execute

SpecRun == Init /\ [][NextRun]_vars

(***************************************************************************)
(* Manager: the registry of commands                                       *)
(***************************************************************************)
Managers == {"m1", "m2"}
CommandNames == {"foo", "bar"}
None == <<>>                        \* namespace = None
Namespaces == {None, <<"x">>}       \* the namespaces given to Command(...)
MergeNamespaces == {None, <<"ns">>} \* the namespaces given to merge(...)

\* Variant: a path that ignores the namespace.
path_without_namespace(c) == c.name

\* Command.path
Command_path(c) ==
    IF c.namespace = None THEN c.name ELSE c.namespace[1] \o "." \o c.name

\* Manager.add_command: self.commands[command.path] = command
add_command(cmds, reg, c) == SetAttr(reg, Command_path(cmds[c]), c)

\* self.commands[path]: the command, or 0 for KeyError
Lookup(reg, path) == IF path \in DOMAIN reg THEN reg[path] ELSE 0

\* The loop of Manager.merge over the keys of manager.commands, taken in the
\* order `order`, into the registry `into`.  When the manager merges itself
\* (same), a key the loop adds changes the size of the dict it iterates,
\* and the next step of the iteration raises RuntimeError.
RECURSIVE merge_loop(_, _, _, _, _, _)
merge_loop(state, source, order, namespace, same, n) ==
    IF n > Len(order) THEN state
    ELSE With(state, LAMBDA st :
        LET c == source[order[n]]
            cmds == IF namespace # None
                    THEN [st.cmds EXCEPT ![c].namespace = namespace]
                    ELSE st.cmds
            grows == Command_path(cmds[c]) \notin DOMAIN st.into
            next == [cmds |-> cmds, into |-> add_command(cmds, st.into, c),
                     raised |-> same /\ grows]
        IN  IF next.raised THEN next
            ELSE merge_loop(next, source, order, namespace, same, n + 1))

\* The orders in which a dict's keys may be iterated.
Orders(keys) ==
    {o \in [1..Cardinality(keys) -> keys] : \A i, j \in DOMAIN o : i # j => o[i] # o[j]}

NoMerge ==
    [made |-> FALSE, target |-> "", source |-> "", namespace |-> None, raised |-> FALSE,
     commands |-> <<>>, registry |-> <<>>]

InitMgr ==
    /\ fn = Callable(FALSE, <<>>, <<>>)
    /\ pc = "new"
    /\ args = <<>>
    /\ arg_names = <<>>
    /\ nadd = 0
    /\ last = NoCall
    /\ directives = NoDirectives
    /\ run = NoRun
    /\ commands = <<>>
    /\ registry = [m \in Managers |-> <<>>]
    /\ merged = NoMerge
    /\ calls = [add |-> 0, merge |-> 0]

\* Command(name=..., namespace=...)
CreateCommand ==
    /\ Len(commands) < MaxCommands
    /\ \E name \in CommandNames, namespace \in Namespaces :
         commands' = Append(commands, [name |-> name, namespace |-> namespace,
                                       description |-> "no description"])
    /\ merged' = NoMerge
    /\ UNCHANGED <<registry, calls, cmdVars>>

\* manager.add_command(command)
AddCommand ==
    /\ calls.add < MaxRegistered
    /\ calls' = [calls EXCEPT !.add = @ + 1]
    /\ \E m \in Managers, c \in DOMAIN commands :
         registry' = [registry EXCEPT ![m] = add_command(commands, @, c)]
    /\ merged' = NoMerge
    /\ UNCHANGED <<commands, cmdVars>>

\* target.merge(source, namespace)
Merge ==
    /\ calls.merge < MaxMerges
    /\ calls' = [calls EXCEPT !.merge = @ + 1]
    /\ \E target \in Managers, source \in Managers, namespace \in MergeNamespaces :
         \E order \in Orders(DOMAIN registry[source]) :
           \E done \in {merge_loop([cmds |-> commands, into |-> registry[target],
                                    raised |-> FALSE],
                                   registry[source], order, namespace,
                                   target = source, 1)} :
             /\ commands' = done.cmds
             /\ registry' = [registry EXCEPT ![target] = done.into]
             /\ merged' = [made |-> TRUE, target |-> target, source |-> source,
                           namespace |-> namespace, raised |-> done.raised,
                           commands |-> commands, registry |-> registry]
    /\ UNCHANGED cmdVars

NextMgr == CreateCommand \/ AddCommand \/ Merge

SpecMgr == InitMgr /\ [][NextMgr]_vars

(***************************************************************************)
(* Properties of construction and of argument overrides                    *)
(***************************************************************************)
\* Parameters of the callable, receiver excluded, and how many have defaults.
NParams == Len(fn.arguments) - (IF fn.is_method THEN 1 ELSE 0)
NDefaults == Len(fn.defaults)
Param(i) == fn.arguments[i + (IF fn.is_method THEN 1 ELSE 0)]
HasDefault(i) == i > NParams - NDefaults
SignatureDefault(i) == fn.defaults[i - (NParams - NDefaults)]

\* C1: constructing a Command over a callable with n parameters (receiver
\* excluded), the last k of them defaulted, yields exactly n descriptors in
\* signature order; the first n-k are required with default None, the last
\* k are not required and carry the signature's default of that parameter.
C1_DerivedDescriptors ==
    /\ pc # "failed"
    /\ (pc = "ready" /\ nadd = 0) =>
        /\ Len(args) = NParams
        /\ \A i \in 1..NParams :
            /\ args[i].name = Param(i)
            /\ ~HasDefault(i) =>
                 /\ args[i].required
                 /\ "default" \in args[i].keys
                 /\ args[i].default = NoneV
            /\ HasDefault(i) =>
                 /\ ~args[i].required
                 /\ "default" \in args[i].keys
                 /\ args[i].default = SignatureDefault(i)

\* A bound method of two parameters, the last one defaulted, was inspected.
C1_Witness ==
    /\ pc = "ready" /\ nadd = 0
    /\ fn.is_method /\ NParams = 2 /\ NDefaults = 1
    /\ Len(args) = 2 /\ args[1].required /\ ~args[2].required

\* C2: after construction and after any add_argument calls the descriptor
\* list is as long as the parameter-name list and the descriptor at
\* position i is the one for the i-th parameter name (an override replaces
\* in place, it never appends or reorders).
C2_OneDescriptorPerParameter ==
    pc = "ready" =>
        /\ Len(args) = Len(arg_names)
        /\ \A i \in 1..Len(args) : Dest(args[i]) = arg_names[i]

\* C3 as stated: add_argument with a descriptor whose name is not among the
\* parameter names fails, and leaves both lists unchanged.
C3_UnknownNameFails ==
    (last.made /\ last.arg.name \notin Range(arg_names)) =>
        /\ last.raised
        /\ args = last.before
        /\ arg_names = argument_names(fn)

\* C3 amended: add_argument with a descriptor whose looked-up name (its
\* dest when it has one, its name otherwise) is not among the parameter
\* names fails, and leaves both lists unchanged.
C3_UnknownDestFails ==
    (last.made /\ Dest(last.arg) \notin Range(arg_names)) =>
        /\ last.raised
        /\ args = last.before
        /\ arg_names = argument_names(fn)

\* An override for an unknown name was refused on a command with descriptors.
C3_Witness ==
    /\ last.made /\ Dest(last.arg) \notin Range(arg_names)
    /\ last.raised /\ Len(args) > 0 /\ args = last.before

\* C8: every optional descriptor of type bool with default False renders as
\* a zero-argument switch (action store_true) without a type entry.
IsBoolFalseOptional(arg) ==
    /\ ~arg.required
    /\ arg.type = "bool"
    /\ "default" \in arg.keys
    /\ arg.default = FalseV

C8_BoolFalseIsSwitch ==
    \A i \in DOMAIN directives.list :
        IsBoolFalseOptional(directives.list[i].arg) =>
            /\ "action" \in directives.list[i].kw.keys
            /\ directives.list[i].kw.action = "store_true"
            /\ "type" \notin directives.list[i].kw.keys

\* A parser was built over a bool/False optional descriptor.
C8_Witness ==
    /\ directives.made
    /\ \E i \in DOMAIN directives.list :
        /\ IsBoolFalseOptional(directives.list[i].arg)
        /\ directives.list[i].name = "--" \o directives.list[i].arg.name

\* An Arg built from a name and a help text alone.
HelpOnly(arg) == arg = Arg(arg.name, Kw({"help"}, arg.help, FALSE, "None", NoneV, ""))

\* C9, for the overrides that only attach help text: after such an override
\* the descriptor of the parameter is required exactly when the parameter
\* has no default in the signature.
C9_RequiredIffNoDefault ==
    (pc = "ready" /\ last.made /\ ~last.raised /\ HelpOnly(last.arg)) =>
        \A i \in 1..NParams :
            i <= Len(args) => (args[i].required <=> ~HasDefault(i))

\* C10: an inspected parameter whose default is a positional marker around
\* v gives a positional descriptor whose rendered default is v and whose
\* type hint is the runtime type of v.
C10_MarkerTypeHint ==
    (pc = "ready" /\ nadd = 0) =>
        \A i \in 1..NParams :
            (HasDefault(i) /\ SignatureDefault(i).wrapped) =>
                /\ Arg_positional(args[i])
                /\ Arg_kwargs(args[i]).default = unwrap_default(SignatureDefault(i))
                /\ args[i].type = unwrap_default(SignatureDefault(i)).type

(***************************************************************************)
(* Properties of parse and execute                                         *)
(***************************************************************************)
\* C4: a parse that succeeds returns the values of the required parameters
\* as the positional list and those of the optional ones as keywords, so
\* that run(*args, **kwargs) binds every value to the parameter it was
\* parsed for.
ParseBinds ==
    (run.op = "parse" /\ run.exc = "") =>
        /\ ~BindError(fn, run.pos, run.kw)
        /\ \A x \in DOMAIN BoundFrom(fn, run.pos, run.kw) :
               BoundFrom(fn, run.pos, run.kw)[x] = x

\* The command is as constructed, or saw one override Arg(name, required=True).
OnlyMadeRequired ==
    \/ nadd = 0
    \/ /\ nadd = 1 /\ ~last.raised
       /\ last.arg = Arg(last.arg.name, Kw({"required"}, "", TRUE, "None", NoneV, ""))

\* Stated for the commands whose descriptors are as inspected or were only
\* made required, so that no other defect of the overrides is involved.
C4_ParseBindsEachValue == OnlyMadeRequired => ParseBinds

\* On a command nobody overrode the statement of C4 holds.
C4_ParseBindsWithoutOverride == nadd = 0 => ParseBinds

\* C5: when the callable raises Error, execute returns normally and the
\* error instance is what it hands to puts, written as its message line.
C5_DomainErrorIsResult ==
    (run.op = "execute" /\ run.called /\ run.raised = "Error") =>
        /\ run.exc = ""
        /\ run.handed
        /\ run.result = ErrorInstance
        /\ run.stdout = <<ErrorInstance.val>>

\* Under Python 2, where the name bound by the except clause survives it,
\* the statement of C5 holds.
C5_DomainErrorIsResultPython2 == run.py = 2 => C5_DomainErrorIsResult

\* C6: when the callable raises a fault that is not Error, execute hands
\* nothing to puts and that fault propagates to the caller.
C6_FaultPropagates ==
    (run.op = "execute" /\ run.called /\ run.raised \notin {"", "Error"}) =>
        /\ ~run.handed
        /\ run.exc = run.raised

(***************************************************************************)
(* Properties of the registry                                              *)
(***************************************************************************)
\* The commands registered in the merged manager when merge was called.
MergedFrom == Range(merged.registry[merged.source])

\* After merge(other, namespace="ns"), command c of `other` is found at
\* "ns." + its name, with everything but its namespace as it was.
FoundUnderNamespace(c) ==
    /\ Lookup(registry[merged.target], "ns." \o merged.commands[c].name) = c
    /\ commands[c] = [merged.commands[c] EXCEPT !.namespace = <<"ns">>]

\* target.merge(other, namespace="ns") was called on a registry other than target.
MergedOther ==
    merged.made /\ merged.target # merged.source /\ merged.namespace = <<"ns">>

\* C7 as stated: after target.merge(other, namespace="ns") every command
\* registered in other is found in target at "ns." + its name, unchanged but
\* for its namespace.
C7_MergedFoundUnderNamespace ==
    MergedOther => \A c \in MergedFrom : FoundUnderNamespace(c)

\* C7 amended: this holds for every command of other whose name no other
\* command registered in other bears.
C7_MergedFoundUnlessNameShared ==
    MergedOther =>
        \A c \in MergedFrom :
            (\A d \in MergedFrom : d # c => merged.commands[d].name # merged.commands[c].name)
                => FoundUnderNamespace(c)

\* Another registry holding two commands of different names was merged
\* under "ns" into a target that held a command already.
C7_Witness ==
    /\ MergedOther
    /\ ~merged.raised
    /\ Cardinality(MergedFrom) = 2
    /\ \A c, d \in MergedFrom : c # d => merged.commands[c].name # merged.commands[d].name
    /\ \E c \in MergedFrom : merged.commands[c].namespace # <<"ns">>
    /\ DOMAIN merged.registry[merged.target] # {}

====
